---- MODULE Spec2Model ----
(***************************************************************************)
(* ElasticDash JS SDK: the score dispatch queue behind                     *)
(* ElasticDashClient.flush / ElasticDashClient.shutdown and the prompt     *)
(* resource cache behind ElasticDashClient.getPrompt.                      *)
(*                                                                         *)
(* ElasticDashClient.ts is modelled from its source.  ScoreManager         *)
(* (./score/index.js) and PromptManager (./prompt/index.js) are imported   *)
(* by it but their sources are not part of the tree; they are modelled     *)
(* from the design document (sections 3 to 7): the dispatch queue with     *)
(* its dispatch loop, and the read-through resource cache.                 *)
(***************************************************************************)
EXTENDS Integers, Sequences, FiniteSets, TLC

\* ------------------------------------------------------------------------
\* Bounds of the model
\* ------------------------------------------------------------------------
MaxEvents == 3

MaxCalls == 2

MaxFaults == 2

NumResolvers == 2

MaxTime == 3

\* getTraceUrl calls made
MaxUrlCalls == 3

\* ------------------------------------------------------------------------
\* Configuration surface (section 6) and capability results
\* ------------------------------------------------------------------------
\* {maxBatchSize, maxRetries} a queue is constructed with: the values of the
\* scenarios of section 8, and the smallest ones (one event per batch, no
\* retry)
Configs ==
    {[maxBatchSize |-> 2, maxRetries |-> 3],
     [maxBatchSize |-> 1, maxRetries |-> 0]}

\* a single retry, for batches of one event and of two
RetryConfigs ==
    {[maxBatchSize |-> 1, maxRetries |-> 1],
     [maxBatchSize |-> 2, maxRetries |-> 1]}

\* backoffBaseMs, in clock units
backoffBaseMs == 1

\* Transport.send(batch) -> Result<Ack, TransportError>
TransportResults == {"Ack", "Transient", "Permanent"}

\* defaultTtlMs and staleGraceMs, in clock units
defaultTtlMs == 2

staleGraceMs == 1

\* the callers of resolve
Resolvers == 1..NumResolvers

\* resource keys, and the values the backend may hold for a resource
Keys == {"k1"}

Values == {1, 2}

\* the value a caller supplies as fallback
FallbackValue == 0

\* resolve(key, {ttl?, fallback?}): the ttl option, absent or given
TtlOptions == {[given |-> FALSE, ms |-> 0], [given |-> TRUE, ms |-> 1]}

\* Fetcher.fetch(key) -> Result<ResourceValue, FetchError>
FetchResults ==
    [kind : {"Value"}, v : Values]
        \cup {[kind |-> "NotFound", v |-> 0], [kind |-> "Unavailable", v |-> 0]}

\* no CacheEntry for a key
NoEntry == [present |-> FALSE, value |-> 0, fetchTs |-> 0, ttl |-> 0, stale |-> FALSE]

Min(a, b) == IF a < b THEN a ELSE b

RECURSIVE Pow2(_)
Pow2(n) == IF n <= 0 THEN 1 ELSE 2 * Pow2(n - 1)

\* exponential backoff: the delay before retry number n (n = 1, 2, ...)
Backoff(n) == backoffBaseMs * Pow2(n - 1)

RECURSIVE Flatten(_)
\* the events of a sequence of batches, in order
Flatten(bs) == IF bs = <<>> THEN <<>> ELSE Head(bs) \o Flatten(Tail(bs))

RECURSIVE Count(_, _)
\* the number of occurrences of x in the sequence s
Count(s, x) ==
    IF s = <<>> THEN 0
    ELSE (IF Head(s) = x THEN 1 ELSE 0) + Count(Tail(s), x)

Range(s) == {s[i] : i \in DOMAIN s}

NoDup(s) == \A i, j \in DOMAIN s : s[i] = s[j] => i = j

VARIABLES
    cfg,                \* [maxBatchSize, maxRetries] of the queue
    qstate,             \* QueueState: Idle, Accumulating, Flushing, ShuttingDown
    buffer,             \* pending Event buffer, FIFO
    inflight,           \* the Batch handed to the Transport, <<>> when none
    attempts,           \* Transport attempts made for the batch in flight
    pc,                 \* dispatch loop: idle, sending, backoff
    backoffMs,          \* delay the loop is waiting for before the next retry
    report,             \* failed batches of the flush in progress
    shutdownRequested,  \* shutdown() has been called
    shutdownOutcome,    \* the report the shutdown completed with
    sends,              \* every batch handed to Transport.send, in order
    outcomes,           \* the result of each answered send, in order
    delivered,          \* batches the Transport acknowledged, in order
    failed,             \* batches reported as failed, in order
    accepted,           \* events accepted by enqueue, in order
    enqCalls,           \* number of enqueue calls made
    enqResult,          \* what the latest enqueue call signalled
    calls,              \* flush()/shutdown() calls received by the score manager
    clientCalls,        \* client.flush()/client.shutdown() calls, in order
    ticks,              \* number of flushes the timer has triggered
    now,                \* the clock
    cache,              \* ResourceCache: key -> CacheEntry
    handle,             \* in-flight fetch handle per key
    fetcherActive,      \* Fetcher invocations not yet answered, per key
    resolves,           \* the resolve call of each caller
    globalThisKind,     \* globalThis: object, locked (not extensible), unavailable
    globalState,        \* the state object under Symbol.for("elasticdash")
    installs,           \* times a state object was installed under the symbol
    otelGlobal,         \* the global OpenTelemetry TracerProvider
    lastSet,            \* argument of the latest setElasticDashTracerProvider
    lastOp,             \* the latest call on the tracing module
    got,                \* result of the latest getElasticDashTracerProvider
    constructed,        \* new ElasticDashClient(params) has run
    timeoutSeconds,     \* the constructor's resolved timeoutSeconds
    apiOptions,         \* options the constructor gave to ElasticDashAPIClient
    apiDefaultTimeout,  \* the timeout ElasticDashAPIClient uses when given none
    targetsUseThis,     \* the methods behind the aliases read fields of `this`
    lastCall,           \* the latest call of an alias or of a manager method
    projectId,          \* this.projectId: "null" until getTraceUrl has stored one
    urlCalls,           \* the getTraceUrl call of each caller
    urlStarted,         \* number of getTraceUrl calls made
    projectsGet,        \* number of invocations of api.projects.get
    attrIn,             \* arguments of the latest create...Attributes call
    attrOut,            \* the Attributes object it returned
    evalIn,             \* adapter: the extra params and the evaluator's arguments
    evalCalls,          \* adapter: arguments of each call of the AutoEvals evaluator
    evalOut             \* adapter: the score received and the evaluation returned

queueVars == <<cfg, qstate, buffer, inflight, attempts, pc, backoffMs, report,
               shutdownRequested, shutdownOutcome, sends, outcomes, delivered,
               failed, accepted, enqCalls, enqResult, calls, clientCalls,
               ticks>>

cacheVars == <<now, cache, handle, fetcherActive, resolves>>

tracerVars == <<globalThisKind, globalState, installs, otelGlobal, lastSet,
                lastOp, got>>

\* everything of the SDK outside the dispatch queue and the resource cache
clientVars == <<constructed, timeoutSeconds, apiOptions, apiDefaultTimeout,
                targetsUseThis, lastCall, projectId, urlCalls, urlStarted,
                projectsGet>>

attrVars == <<attrIn, attrOut>>

adapterVars == <<evalIn, evalCalls, evalOut>>

sdkVars == <<tracerVars, clientVars, attrVars, adapterVars>>

vars == <<queueVars, cacheVars, sdkVars>>

\* ------------------------------------------------------------------------
\* Dispatch Queue (ScoreManager), section 4.1
\* ------------------------------------------------------------------------
InitQueue ==
    /\ cfg \in Configs \cup RetryConfigs
    /\ qstate = "Idle"
    /\ buffer = <<>>
    /\ inflight = <<>>
    /\ attempts = 0
    /\ pc = "idle"
    /\ backoffMs = 0
    /\ report = <<>>
    /\ shutdownRequested = FALSE
    /\ shutdownOutcome = <<>>
    /\ sends = <<>>
    /\ outcomes = <<>>
    /\ delivered = <<>>
    /\ failed = <<>>
    /\ accepted = <<>>
    /\ enqCalls = 0
    /\ enqResult = "none"
    /\ calls = <<>>
    /\ clientCalls = <<>>
    /\ ticks = 0

\* a completion that resolves the callers without the report
CompleteFlush_noReport(rep, cs, sd) ==
    /\ qstate' = IF sd THEN "ShuttingDown" ELSE "Idle"
    /\ buffer' = <<>>
    /\ inflight' = <<>>
    /\ attempts' = 0
    /\ pc' = "idle"
    /\ backoffMs' = 0
    /\ report' = <<>>
    /\ sends' = sends
    /\ shutdownRequested' = sd
    /\ shutdownOutcome' = IF sd THEN rep ELSE shutdownOutcome
    /\ calls' = [i \in DOMAIN cs |->
                    IF cs[i].done THEN cs[i]
                    ELSE [cs[i] EXCEPT !.done = TRUE]]

\* The flush in progress has attempted everything: every caller awaiting it
\* gets the aggregated report, and the queue goes to ShuttingDown when a
\* shutdown was requested, else back to Idle (Flushing -> Idle/ShuttingDown).
CompleteFlush(rep, cs, sd) ==
    /\ qstate' = IF sd THEN "ShuttingDown" ELSE "Idle"
    /\ buffer' = <<>>
    /\ inflight' = <<>>
    /\ attempts' = 0
    /\ pc' = "idle"
    /\ backoffMs' = 0
    /\ report' = <<>>
    /\ sends' = sends
    /\ shutdownRequested' = sd
    /\ shutdownOutcome' = IF sd THEN rep ELSE shutdownOutcome
    /\ calls' = [i \in DOMAIN cs |->
                    IF cs[i].done THEN cs[i]
                    ELSE [cs[i] EXCEPT !.done = TRUE, !.report = rep]]

\* The dispatch loop assembles the next Batch from the head of the buffer
\* (at most maxBatchSize events, enqueue order) and hands it to the Transport.
SendNext(buf, rep, cs, sd) ==
    LET n == Min(Len(buf), cfg.maxBatchSize)
        batch == SubSeq(buf, 1, n)
    IN /\ qstate' = "Flushing"
       /\ buffer' = SubSeq(buf, n + 1, Len(buf))
       /\ inflight' = batch
       /\ attempts' = 1
       /\ pc' = "sending"
       /\ backoffMs' = 0
       /\ report' = rep
       /\ sends' = Append(sends, batch)
       /\ shutdownRequested' = sd
       /\ shutdownOutcome' = shutdownOutcome
       /\ calls' = cs

\* a loop that stops at the first failed batch
RunLoop_failFast(buf, rep, cs, sd) ==
    IF buf = <<>> \/ rep # <<>>
    THEN CompleteFlush(rep, cs, sd)
    ELSE SendNext(buf, rep, cs, sd)

\* One turn of the dispatch loop: the next batch, or completion once the
\* buffer is drained.
RunLoop(buf, rep, cs, sd) ==
    IF buf = <<>> THEN CompleteFlush(rep, cs, sd) ELSE SendNext(buf, rep, cs, sd)

\* A flush already in progress is awaited rather than re-triggered.
JoinFlush(cs, sd) ==
    /\ calls' = cs
    /\ shutdownRequested' = sd
    /\ UNCHANGED <<qstate, buffer, inflight, attempts, pc, backoffMs, report,
                   shutdownOutcome, sends>>

NewCall(op) ==
    [op |-> op, mark |-> Len(accepted), joined |-> qstate = "Flushing",
     done |-> FALSE, report |-> <<>>]

\* flush() of the dispatch queue
QueueFlush ==
    LET call == NewCall("flush") IN
    CASE qstate = "ShuttingDown" ->
            /\ calls' = Append(calls, [call EXCEPT !.done = TRUE])
            /\ UNCHANGED <<qstate, buffer, inflight, attempts, pc, backoffMs,
                           report, shutdownRequested, shutdownOutcome, sends>>
      [] qstate = "Flushing" -> JoinFlush(Append(calls, call), shutdownRequested)
      [] OTHER -> RunLoop(buffer, <<>>, Append(calls, call), shutdownRequested)

\* shutdown() of the dispatch queue: flush(), then ShuttingDown; idempotent
QueueShutdown ==
    LET call == NewCall("shutdown") IN
    CASE qstate = "ShuttingDown" ->
            /\ calls' = Append(calls, [call EXCEPT !.done = TRUE,
                                                   !.report = shutdownOutcome])
            /\ UNCHANGED <<qstate, buffer, inflight, attempts, pc, backoffMs,
                           report, shutdownRequested, shutdownOutcome, sends>>
      [] qstate = "Flushing" -> JoinFlush(Append(calls, call), TRUE)
      [] OTHER -> RunLoop(buffer, <<>>, Append(calls, call), TRUE)

\* enqueue(event): the event is the next client-generated identifier
enqueue ==
    /\ enqCalls < MaxEvents
    /\ UNCHANGED <<cacheVars, sdkVars>>
    /\ LET e == enqCalls + 1 IN
       /\ enqCalls' = e
       /\ UNCHANGED <<cfg, outcomes, delivered, failed, clientCalls, ticks>>
       /\ IF qstate = "ShuttingDown"
          THEN /\ enqResult' = "QueueClosed"
               /\ UNCHANGED <<qstate, buffer, inflight, attempts, pc, backoffMs,
                              report, shutdownRequested, shutdownOutcome, sends,
                              accepted, calls>>
          ELSE /\ enqResult' = "ok"
               /\ accepted' = Append(accepted, e)
               /\ IF qstate = "Flushing"
                  THEN /\ buffer' = Append(buffer, e)
                       /\ UNCHANGED <<qstate, inflight, attempts, pc, backoffMs,
                                      report, shutdownRequested,
                                      shutdownOutcome, sends, calls>>
                  ELSE IF Len(buffer) + 1 >= cfg.maxBatchSize
                       THEN RunLoop(Append(buffer, e), <<>>, calls,
                                    shutdownRequested)
                       ELSE /\ buffer' = Append(buffer, e)
                            /\ qstate' = "Accumulating"
                            /\ UNCHANGED <<inflight, attempts, pc, backoffMs,
                                           report, shutdownRequested,
                                           shutdownOutcome, sends, calls>>

\* the periodic timer: flush() when the buffer is non-empty; a tick while a
\* flush is in progress joins it and changes nothing; disabled in ShuttingDown
TimerTick ==
    /\ qstate = "Accumulating"
    /\ UNCHANGED <<cacheVars, sdkVars>>
    /\ buffer # <<>>
    /\ RunLoop(buffer, <<>>, calls, shutdownRequested)
    /\ ticks' = ticks + 1
    /\ UNCHANGED <<cfg, outcomes, delivered, failed, accepted, enqCalls,
                   enqResult, clientCalls>>

\* answers of the Transport that were not an Ack
Faults == Len(outcomes) - Count(outcomes, "Ack")

\* a retry budget that allows one retry too many
CanRetry_oneMore(n) == n - 1 <= cfg.maxRetries

\* retry budget: attempt number n may be followed by a retry
CanRetry(n) == n - 1 < cfg.maxRetries

\* The Transport answers the send of the batch in flight.
TransportRespond(r) ==
    /\ pc = "sending"
    /\ UNCHANGED <<cacheVars, sdkVars>>
    /\ r # "Ack" => Faults < MaxFaults
    /\ outcomes' = Append(outcomes, r)
    /\ UNCHANGED <<cfg, accepted, enqCalls, enqResult, clientCalls, ticks>>
    /\ CASE r = "Ack" ->
              /\ delivered' = Append(delivered, inflight)
              /\ failed' = failed
              /\ RunLoop(buffer, report, calls, shutdownRequested)
         [] r = "Permanent" ->
              /\ delivered' = delivered
              /\ failed' = Append(failed, inflight)
              /\ RunLoop(buffer, Append(report, inflight), calls,
                         shutdownRequested)
         [] OTHER ->
              IF CanRetry(attempts)
              THEN /\ pc' = "backoff"
                   /\ backoffMs' = Backoff(attempts)
                   /\ UNCHANGED <<qstate, buffer, inflight, attempts, report,
                                  shutdownRequested, shutdownOutcome, sends,
                                  delivered, failed, calls>>
              ELSE /\ delivered' = delivered
                   /\ failed' = Append(failed, inflight)
                   /\ RunLoop(buffer, Append(report, inflight), calls,
                              shutdownRequested)

\* The backoff delay has elapsed: the batch in flight is sent again.
BackoffElapsed ==
    /\ pc = "backoff"
    /\ UNCHANGED <<cacheVars, sdkVars>>
    /\ pc' = "sending"
    /\ backoffMs' = 0
    /\ attempts' = attempts + 1
    /\ sends' = Append(sends, inflight)
    /\ UNCHANGED <<cfg, qstate, buffer, inflight, report, shutdownRequested,
                   shutdownOutcome, outcomes, delivered, failed, accepted,
                   enqCalls, enqResult, calls, clientCalls, ticks>>

\* ------------------------------------------------------------------------
\* Resource Cache (PromptManager), section 4.2
\* ------------------------------------------------------------------------
\* a caller that is not in a resolve call
IdleCall == [key |-> "k1", status |-> "idle", value |-> 0, fb |-> FALSE]

InitCache ==
    /\ now = 0
    /\ cache = [k \in Keys |-> NoEntry]
    /\ handle = [k \in Keys |-> [active |-> FALSE, ttl |-> 0]]
    /\ fetcherActive = [k \in Keys |-> 0]
    /\ resolves = [r \in Resolvers |-> IdleCall]

\* a window that ends one clock unit early
Fresh_short(e, t) == e.fetchTs <= t /\ t < e.fetchTs + e.ttl - 1

\* the TTL window of an entry is [fetchTimestamp, fetchTimestamp + ttl)
Fresh(e, t) == e.fetchTs <= t /\ t < e.fetchTs + e.ttl

\* a retained stale entry whose window is left as it was
GraceTtl_none(e, t) == e.ttl

\* the ttl that makes the window of a retained stale entry end one grace
\* period after the failed refresh at time t
GraceTtl(e, t) == (t - e.fetchTs) + staleGraceMs

EffectiveTtl(opt) == IF opt.given THEN opt.ms ELSE defaultTtlMs

\* the first caller installs the shared handle for the key and invokes the
\* Fetcher
StartFetch(k, ttl) ==
    /\ handle' = [handle EXCEPT ![k] = [active |-> TRUE, ttl |-> ttl]]
    /\ fetcherActive' = [fetcherActive EXCEPT ![k] = @ + 1]

\* a later caller for the key joins the fetch in flight
ShouldJoin(k) == handle[k].active

\* resolve(key, {ttl?, fallback?}) by caller r with receiver recv; the cache
\* is a field of the PromptManager, a receiver that is not the manager has
\* none
resolve(recv, r, k, opt, fb) ==
    /\ resolves[r].status = "idle"
    /\ UNCHANGED <<now, cache>>
    /\ LET e == cache[k]
           call == [IdleCall EXCEPT !.key = k]
       IN
       IF recv # "prompt"
       THEN /\ resolves' = [resolves EXCEPT
                               ![r] = [call EXCEPT !.status = "TypeError"]]
            /\ UNCHANGED <<handle, fetcherActive>>
       ELSE IF e.present /\ Fresh(e, now)
       THEN \* within the window: the entry, no network access
            /\ resolves' = [resolves EXCEPT
                               ![r] = [call EXCEPT
                                          !.status = IF e.stale THEN "grace"
                                                     ELSE "hit",
                                          !.value = e.value]]
            /\ UNCHANGED <<handle, fetcherActive>>
       ELSE IF e.present
       THEN \* stale: the stale value at once, and a refresh behind it
            /\ resolves' = [resolves EXCEPT
                               ![r] = [call EXCEPT !.status = "stale",
                                                   !.value = e.value]]
            /\ IF ShouldJoin(k)
               THEN UNCHANGED <<handle, fetcherActive>>
               ELSE StartFetch(k, EffectiveTtl(opt))
       ELSE \* missing: blocking fetch
            /\ resolves' = [resolves EXCEPT
                               ![r] = [call EXCEPT !.status = "pending",
                                                   !.fb = fb]]
            /\ IF ShouldJoin(k)
               THEN UNCHANGED <<handle, fetcherActive>>
               ELSE StartFetch(k, EffectiveTtl(opt))

\* what a blocked resolve call gets when the fetch for its key is answered
Settle(call, res) ==
    IF res.kind = "Value"
    THEN [call EXCEPT !.status = "fetched", !.value = res.v, !.fb = FALSE]
    ELSE IF res.kind = "NotFound" /\ call.fb
    THEN [call EXCEPT !.status = "fallback", !.value = FallbackValue,
                      !.fb = FALSE]
    ELSE IF res.kind = "NotFound"
    THEN [call EXCEPT !.status = "ResourceNotFound", !.fb = FALSE]
    ELSE [call EXCEPT !.status = "FetchUnavailable", !.fb = FALSE]

\* The Fetcher answers the fetch in flight for key k: the entry is replaced
\* on success; on failure a stale entry is retained with its window
\* extended by the grace period; the handle is cleared either way.
FetcherRespond(k, res) ==
    /\ fetcherActive[k] > 0
    /\ fetcherActive' = [fetcherActive EXCEPT ![k] = @ - 1]
    /\ handle' = [handle EXCEPT ![k] = [active |-> FALSE, ttl |-> 0]]
    /\ cache' = [cache EXCEPT ![k] =
                    IF res.kind = "Value"
                    THEN [present |-> TRUE, value |-> res.v, fetchTs |-> now,
                          ttl |-> handle[k].ttl, stale |-> FALSE]
                    ELSE IF cache[k].present
                    THEN [cache[k] EXCEPT !.ttl = GraceTtl(cache[k], now),
                                          !.stale = TRUE]
                    ELSE cache[k]]
    /\ resolves' = [r \in Resolvers |->
                       IF resolves[r].key = k /\ resolves[r].status = "pending"
                       THEN Settle(resolves[r], res)
                       ELSE resolves[r]]
    /\ UNCHANGED now

\* the caller has taken the result of its resolve call
Return(r) ==
    /\ resolves[r].status \notin {"idle", "pending"}
    /\ resolves' = [resolves EXCEPT ![r] = IdleCall]
    /\ UNCHANGED <<now, cache, handle, fetcherActive>>

\* invalidate(key)
invalidate(k) ==
    /\ cache[k].present
    /\ cache' = [cache EXCEPT ![k] = NoEntry]
    /\ UNCHANGED <<now, handle, fetcherActive, resolves>>

\* the clock advances
Tick ==
    /\ now < MaxTime
    /\ now' = now + 1
    /\ UNCHANGED <<cache, handle, fetcherActive, resolves>>

\* ------------------------------------------------------------------------
\* Tracer provider slot (packages/tracing/src/tracerProvider.ts)
\* ------------------------------------------------------------------------
\* TracerProvider instances an application may pass
Providers == {"P1", "P2"}

\* what trace.getTracerProvider() may be: the no-op default or a registered one
OtelProviders == {"noop", "G1"}

\* createState(): { isolatedTracerProvider: null }; installed tells whether
\* the object is the one under the global symbol
createState == [installed |-> FALSE, isolatedTracerProvider |-> "null"]

InitTracer ==
    /\ globalThisKind \in {"object", "locked", "unavailable"}
    /\ globalState = createState
    /\ installs = 0
    /\ otelGlobal = "noop"
    /\ lastSet = "none"
    /\ lastOp = "none"
    /\ got = "none"

\* getGlobalState() hands out the object under the global symbol: it is
\* there already, or Object.defineProperty can put it there
SlotReached == globalThisKind # "unavailable"
               /\ (globalState.installed \/ globalThisKind = "object")

\* getGlobalState(): the effect on the global symbol.  The fresh initialState
\* is installed when the slot is empty and globalThis takes the property;
\* when globalThis is unavailable or defineProperty throws, the fresh object
\* is returned to the caller and nothing is installed.
getGlobalState(st) ==
    IF SlotReached
    THEN /\ globalState' = [st EXCEPT !.installed = TRUE]
         /\ installs' = IF globalState.installed THEN installs ELSE installs + 1
    ELSE UNCHANGED <<globalState, installs>>

\* a set that does not clear the slot on null
setElasticDashTracerProvider_keepOnNull(provider) ==
    /\ getGlobalState(IF provider = "null" THEN globalState
                      ELSE [globalState EXCEPT !.isolatedTracerProvider = provider])
    /\ lastSet' = provider
    /\ lastOp' = "set"
    /\ UNCHANGED <<globalThisKind, otelGlobal, got>>
    /\ UNCHANGED <<queueVars, cacheVars, clientVars, attrVars, adapterVars>>

\* getGlobalState().isolatedTracerProvider = provider
setElasticDashTracerProvider(provider) ==
    /\ getGlobalState([globalState EXCEPT !.isolatedTracerProvider = provider])
    /\ lastSet' = provider
    /\ lastOp' = "set"
    /\ UNCHANGED <<globalThisKind, otelGlobal, got>>
    /\ UNCHANGED <<queueVars, cacheVars, clientVars, attrVars, adapterVars>>

\* const { isolatedTracerProvider } = getGlobalState();
\* if (isolatedTracerProvider) return isolatedTracerProvider;
\* return trace.getTracerProvider();
getElasticDashTracerProvider ==
    /\ getGlobalState(globalState)
    /\ got' = IF SlotReached /\ globalState.isolatedTracerProvider # "null"
              THEN globalState.isolatedTracerProvider
              ELSE otelGlobal
    /\ lastOp' = "get"
    /\ UNCHANGED <<globalThisKind, otelGlobal, lastSet>>
    /\ UNCHANGED <<queueVars, cacheVars, clientVars, attrVars, adapterVars>>

\* the application registers a global OpenTelemetry TracerProvider
RegisterGlobalProvider ==
    /\ otelGlobal = "noop"
    /\ otelGlobal' = "G1"
    /\ lastOp' = "register"
    /\ UNCHANGED <<globalThisKind, globalState, installs, lastSet, got>>
    /\ UNCHANGED <<queueVars, cacheVars, clientVars, attrVars, adapterVars>>

\* the host makes globalThis non-extensible (Object.preventExtensions)
PreventExtensions ==
    /\ globalThisKind = "object"
    /\ globalThisKind' = "locked"
    /\ UNCHANGED <<globalState, installs, otelGlobal, lastSet, lastOp, got>>
    /\ UNCHANGED <<queueVars, cacheVars, clientVars, attrVars, adapterVars>>

\* ------------------------------------------------------------------------
\* Span attributes (packages/tracing/src/attributes.ts)
\* ------------------------------------------------------------------------
\* JavaScript values: t is the kind; s the text of a string, number or
\* boolean, the only element of an array, the leaf of a nested object;
\* k the only key of a nested object { k: s }
Undef == [t |-> "undefined", k |-> "", s |-> ""]

Null == [t |-> "null", k |-> "", s |-> ""]

Str(x) == [t |-> "string", k |-> "", s |-> x]

Num(x) == [t |-> "number", k |-> "", s |-> x]

Bool(x) == [t |-> "boolean", k |-> "", s |-> x]

Arr(x) == [t |-> "array", k |-> "", s |-> x]

Obj(key, leaf) == [t |-> "object", k |-> key, s |-> leaf]

\* a function: JSON.stringify gives undefined for it
Fn == [t |-> "function", k |-> "", s |-> ""]

\* a Date: JSON.stringify gives its ISO text, quoted
Date(x) == [t |-> "date", k |-> "", s |-> x]

\* a BigInt: JSON.stringify throws on it
BigInt == [t |-> "bigint", k |-> "", s |-> "1"]

\* v == null
IsNullish(v) == v.t \in {"undefined", "null"}

\* JSON.stringify(v) for a v that is neither a string nor nullish
JSON_stringify(v) ==
    CASE v.t \in {"string", "date"} -> Str("\"" \o v.s \o "\"")
      [] v.t \in {"number", "boolean"} -> Str(v.s)
      [] v.t = "null" -> Str("null")
      [] v.t = "array" -> Str("[\"" \o v.s \o "\"]")
      [] v.t = "object" -> Str("{\"" \o v.k \o "\":\"" \o v.s \o "\"}")
      [] OTHER -> Undef

\* function _serialize(obj): the string itself, undefined for null and
\* undefined, else JSON.stringify(obj), "<failed to serialize>" when it throws
_serialize(obj) ==
    IF obj.t = "bigint" THEN Str("<failed to serialize>")
    ELSE IF obj.t = "string" THEN obj
    ELSE IF ~IsNullish(obj) THEN JSON_stringify(obj)
    ELSE Undef

\* if (serialized): a non-empty string
Truthy(v) == v.t = "string" /\ v.s # ""

\* the function whose graph is the set of <<key, value>> pairs ps
FromEntries(ps) == [key \in {p[1] : p \in ps} |-> (CHOOSE p \in ps : p[1] = key)[2]]

\* a filter that keeps the truthy values only
FilterNonNull_truthy(attributes) ==
    FromEntries({<<key, attributes[key]>> : key \in
                    {x \in DOMAIN attributes :
                        /\ ~IsNullish(attributes[x])
                        /\ attributes[x].s \notin {"", "false", "0"}}})

\* Object.fromEntries(Object.entries(attributes).filter(([_, v]) => v != null))
FilterNonNull(attributes) ==
    FromEntries({<<key, attributes[key]>> : key \in
                    {x \in DOMAIN attributes : ~IsNullish(attributes[x])}})

\* metadata arguments: v is the value, entries the <<key, value>> pairs of a
\* plain object (v.t = "object")
Meta(v, entries) == [v |-> v, entries |-> entries]

\* the two prefixes taken for each other
MetaPrefix_swapped(type) ==
    IF type = "observation" THEN "TRACE_METADATA" ELSE "OBSERVATION_METADATA"

MetaPrefix(type) ==
    IF type = "observation" THEN "OBSERVATION_METADATA" ELSE "TRACE_METADATA"

\* function _flattenAndSerializeMetadata(metadata, type): nothing for null
\* and undefined; the serialized value under the prefix for a value that is
\* not a plain object; else one key prefix.key per entry of the object, with
\* the entry's string or its _serialize text, entries without text left out
_flattenAndSerializeMetadata(metadata, type) ==
    LET prefix == MetaPrefix(type) IN
    IF IsNullish(metadata.v) THEN FromEntries({})
    ELSE IF metadata.v.t # "object"
    THEN LET serialized == _serialize(metadata.v) IN
         IF Truthy(serialized) THEN FromEntries({<<prefix, serialized>>})
         ELSE FromEntries({})
    ELSE FromEntries(
            {<<prefix \o "." \o e[1],
               IF e[2].t = "string" THEN e[2] ELSE _serialize(e[2])>> :
             e \in {x \in metadata.entries :
                       Truthy(IF x[2].t = "string" THEN x[2]
                              ELSE _serialize(x[2]))}})

\* { ...base, ...spread }: the keys of both, the later spread winning
Spread(base, spread) ==
    [key \in DOMAIN base \cup DOMAIN spread |->
        IF key \in DOMAIN spread THEN spread[key] ELSE base[key]]

\* export function createTraceAttributes({...}: ElasticDashTraceAttributes)
createTraceAttributes(a) ==
    FilterNonNull(
        Spread([TRACE_NAME |-> a.name,
                TRACE_USER_ID |-> a.userId,
                TRACE_SESSION_ID |-> a.sessionId,
                VERSION |-> a.version,
                RELEASE |-> a.release,
                TRACE_INPUT |-> _serialize(a.input),
                TRACE_OUTPUT |-> _serialize(a.output),
                TRACE_TAGS |-> a.tags,
                ENVIRONMENT |-> a.environment,
                TRACE_PUBLIC |-> a.public],
               _flattenAndSerializeMetadata(a.metadata, "trace")))

\* the conversion of a value to a boolean in `!v` and `v && ...`
ToBoolean(v) ==
    /\ ~IsNullish(v)
    /\ ~(v.t = "string" /\ v.s = "")
    /\ ~(v.t = "boolean" /\ v.s = "false")
    /\ ~(v.t = "number" /\ v.s \in {"0", "NaN"})

\* a condition that looks at the presence of the prompt only
LinksPrompt_ignoreFallback(prompt) == prompt.given

\* prompt && !prompt.isFallback
LinksPrompt(prompt) == prompt.given /\ ~ToBoolean(prompt.isFallback)

\* export function createObservationAttributes(type, attributes)
createObservationAttributes(type, a) ==
    FilterNonNull(
        Spread(Spread([OBSERVATION_TYPE |-> Str(type),
                       OBSERVATION_LEVEL |-> a.level,
                       OBSERVATION_STATUS_MESSAGE |-> a.statusMessage,
                       VERSION |-> a.version,
                       OBSERVATION_INPUT |-> _serialize(a.input),
                       OBSERVATION_OUTPUT |-> _serialize(a.output),
                       OBSERVATION_MODEL |-> a.model,
                       OBSERVATION_USAGE_DETAILS |-> _serialize(a.usageDetails),
                       OBSERVATION_COST_DETAILS |-> _serialize(a.costDetails),
                       OBSERVATION_COMPLETION_START_TIME |->
                           _serialize(a.completionStartTime),
                       OBSERVATION_MODEL_PARAMETERS |->
                           _serialize(a.modelParameters)],
                      IF LinksPrompt(a.prompt)
                      THEN [OBSERVATION_PROMPT_NAME |-> a.prompt.name,
                            OBSERVATION_PROMPT_VERSION |-> a.prompt.version]
                      ELSE FromEntries({})),
               _flattenAndSerializeMetadata(a.metadata, "observation")))

\* metadata arguments: nothing, scalars, an array, and plain objects with
\* string, empty and nested values
MetaKeys == {"database", "version"}

MetaValues == {Str("2.1.0"), Str(""), Obj("host", "localhost")}

MetaObjects ==
    {Meta(Obj("", ""), {})}
        \cup {Meta(Obj("", ""), {<<"database", v>>}) : v \in MetaValues}
        \cup {Meta(Obj("", ""), {<<"database", v>>, <<"version", w>>}) :
                 v \in MetaValues, w \in MetaValues}

MetadataInputs ==
    {Meta(Undef, {}), Meta(Null, {}), Meta(Str("m"), {}), Meta(Str(""), {}),
     Meta(Arr("a"), {})} \cup MetaObjects

\* ElasticDashTraceAttributes arguments
TraceInputs ==
    [name : {Undef, Null, Str(""), Str("user-checkout-flow")},
     userId : {Undef, Str("user-123")},
     sessionId : {Undef, Str("session-456")},
     version : {Undef, Str("2.1.0")},
     release : {Undef, Null},
     input : {Undef, Null, Str("x"), Obj("q", "a"), Fn},
     output : {Undef, BigInt},
     metadata : MetadataInputs,
     tags : {Undef, Arr("checkout")},
     environment : {Undef, Str("prod")},
     public : {Undef, Bool("false")}]

\* the prompt of an observation: none (undefined or null), or an object with
\* a name, a version and an isFallback flag that is true, false or missing
NoPrompt == [given |-> FALSE, name |-> Undef, version |-> Undef, isFallback |-> Undef]

Prompts ==
    {NoPrompt}
        \cup [given : {TRUE}, name : {Str("p"), Str("")},
               version : {Num("3"), Num("0")},
               isFallback : {Bool("true"), Bool("false"), Undef}]

ObservationTypes == {"span", "generation"}

\* ElasticDashObservationAttributes arguments
ObservationInputs ==
    [level : {Undef, Str("ERROR")},
     statusMessage : {Undef, Null},
     version : {Undef, Str("2.1.0")},
     input : {Undef, Str("x"), Fn},
     output : {Undef, Obj("q", "a")},
     model : {Undef, Str("gpt-4o")},
     usageDetails : {Undef, Obj("input", "10")},
     costDetails : {Undef, Obj("input", "1")},
     completionStartTime : {Undef, Date("2024-01-01T00:00:00.000Z")},
     modelParameters : {Undef, Obj("temperature", "0")},
     prompt : Prompts,
     metadata : {Meta(Undef, {}), Meta(Str("m"), {}),
                 Meta(Obj("", ""), {<<"database", Obj("host", "localhost")>>}),
                 Meta(Obj("", ""), {<<"database", Str("")>>,
                                    <<"version", Str("2.1.0")>>})}]

NoAttrCall == [fn |-> "none", returned |-> FALSE]

\* the calls of the two functions, with their arguments
AttrCalls ==
    [fn : {"createTraceAttributes"}, type : {"trace"}, a : TraceInputs,
     returned : {FALSE}]
        \cup [fn : {"createObservationAttributes"}, type : ObservationTypes,
               a : ObservationInputs, returned : {FALSE}]

InitAttrs ==
    /\ attrIn = NoAttrCall
    /\ attrOut = FromEntries({})

\* the call of createTraceAttributes returns
CallCreateTraceAttributes ==
    /\ attrIn.fn = "createTraceAttributes"
    /\ ~attrIn.returned
    /\ attrIn' = [attrIn EXCEPT !.returned = TRUE]
    /\ attrOut' = createTraceAttributes(attrIn.a)
    /\ UNCHANGED <<queueVars, cacheVars, tracerVars, clientVars, adapterVars>>

\* the call of createObservationAttributes returns
CallCreateObservationAttributes ==
    /\ attrIn.fn = "createObservationAttributes"
    /\ ~attrIn.returned
    /\ attrIn' = [attrIn EXCEPT !.returned = TRUE]
    /\ attrOut' = createObservationAttributes(attrIn.type, attrIn.a)
    /\ UNCHANGED <<queueVars, cacheVars, tracerVars, clientVars, adapterVars>>

\* ------------------------------------------------------------------------
\* AutoEvals adapter (packages/client/src/experiment/adapters.ts)
\* ------------------------------------------------------------------------
\* the extra params given to createEvaluatorFromAutoevals: none, or an object
\* with any of model, input, output, expected
ExtraParams ==
    {FromEntries(ps) : ps \in SUBSET {<<"model", Str("gpt-4o")>>,
                                      <<"input", Str("params-input")>>,
                                      <<"output", Str("params-output")>>,
                                      <<"expected", Str("params-expected")>>}}

\* the arguments ElasticDash gives to an evaluator
EvaluatorParams ==
    [input : {Undef, Str("question")},
     output : {Str("answer"), Obj("text", "answer")},
     expectedOutput : {Undef, Str("reference")}]

\* what an AutoEvals evaluator resolves with
Scores ==
    [name : {Str("Factuality")},
     score : {Undef, Null, Num("0"), Num("0.7")},
     metadata : {Undef, Obj("rationale", "r")}]

NoEvaluation == [state |-> "none"]

InitAdapter ==
    /\ evalIn = [params |-> FromEntries({}),
                 ed |-> [input |-> Undef, output |-> Undef, expectedOutput |-> Undef]]
    /\ evalCalls = <<>>
    /\ evalOut = NoEvaluation

\* arguments in which the extra params are spread last
AutoevalArgs_paramsLast(params, ed) ==
    Spread([input |-> ed.input, output |-> ed.output, expected |-> ed.expectedOutput],
           params)

\* { ...(params ?? {}), input, output, expected: expectedOutput }
AutoevalArgs(params, ed) ==
    Spread(params,
           [input |-> ed.input, output |-> ed.output, expected |-> ed.expectedOutput])

\* the evaluator is invoked: await autoevalEvaluator({...})
InvokeEvaluator ==
    /\ evalOut.state = "none"
    /\ evalCalls' = Append(evalCalls, AutoevalArgs(evalIn.params, evalIn.ed))
    /\ evalOut' = [state |-> "awaiting"]
    /\ UNCHANGED evalIn
    /\ UNCHANGED <<queueVars, cacheVars, tracerVars, clientVars, attrVars>>

\* the AutoEvals evaluator resolves with score:
\* return { name: score.name, value: score.score ?? 0, metadata: score.metadata }
EvaluatorResolves(score) ==
    /\ evalOut.state = "awaiting"
    /\ evalOut' = [state |-> "returned",
                   score |-> score,
                   result |-> [name |-> score.name,
                               value |-> IF IsNullish(score.score) THEN Num("0")
                                         ELSE score.score,
                               metadata |-> score.metadata]]
    /\ UNCHANGED <<evalIn, evalCalls>>
    /\ UNCHANGED <<queueVars, cacheVars, tracerVars, clientVars, attrVars>>

\* ------------------------------------------------------------------------
\* ElasticDashClient (packages/client/src/ElasticDashClient.ts)
\* ------------------------------------------------------------------------
\* params?.timeout: absent, or a number of seconds
ParamTimeouts ==
    {[given |-> FALSE, v |-> 0], [given |-> TRUE, v |-> 0], [given |-> TRUE, v |-> 10]}

\* getEnv("ELASTICDASH_TIMEOUT"): unset, or its text
EnvTimeouts == {"undefined", "3", "abc"}

\* Number(text) that is not a number
NaN == -1

\* Number(getEnv("ELASTICDASH_TIMEOUT") ?? 5)
EnvTimeoutNumber(env) ==
    IF env = "undefined" THEN 5 ELSE IF env = "3" THEN 3 ELSE NaN

\* params?.timeout ?? Number(getEnv("ELASTICDASH_TIMEOUT") ?? 5)
ResolveTimeout(p, env) == IF p.given THEN p.v ELSE EnvTimeoutNumber(env)

\* ElasticDashAPIClient (core/src/Client.js) is not part of the tree: the
\* timeout it applies when its options name none is one of these
ApiDefaultTimeouts == {5, 60}

\* The v3 compat aliases the constructor assigns: the object that owns the
\* target method, and whether the assignment binds the method to it.
Aliases ==
    [getPrompt |-> [owner |-> "prompt", bound |-> TRUE],
     createPrompt |-> [owner |-> "prompt", bound |-> TRUE],
     updatePrompt |-> [owner |-> "prompt", bound |-> TRUE],
     getDataset |-> [owner |-> "dataset", bound |-> FALSE],
     fetchTrace |-> [owner |-> "api.trace", bound |-> FALSE],
     fetchTraces |-> [owner |-> "api.trace", bound |-> FALSE],
     fetchObservation |-> [owner |-> "api.observations", bound |-> FALSE],
     fetchObservations |-> [owner |-> "api.observations", bound |-> FALSE],
     fetchSessions |-> [owner |-> "api.sessions", bound |-> FALSE],
     getDatasetRun |-> [owner |-> "api.datasets", bound |-> FALSE],
     getDatasetRuns |-> [owner |-> "api.datasets", bound |-> FALSE],
     createDataset |-> [owner |-> "api.datasets", bound |-> FALSE],
     getDatasetItem |-> [owner |-> "api.datasetItems", bound |-> FALSE],
     createDatasetItem |-> [owner |-> "api.datasetItems", bound |-> FALSE],
     fetchMedia |-> [owner |-> "api.media", bound |-> FALSE],
     resolveMediaReferences |-> [owner |-> "media", bound |-> FALSE]]

AliasNames == DOMAIN Aliases

NoCall == [kind |-> "none", name |-> "none", receiver |-> "none", outcome |-> "none"]

\* a method run with receiver recv: a method that reads the fields of its
\* owner finds them only on its owner
RunMethod(a, recv) ==
    IF recv = Aliases[a].owner \/ ~targetsUseThis THEN "result" ELSE "TypeError"

\* callers of getTraceUrl, and the trace ids they ask for
UrlCallers == 1 .. 2

TraceIds == {"t1", "t2"}

\* this.baseUrl
baseUrl == "https://devserver-logger.elasticdash.com"

\* the id of the first project api.projects.get answers with
ServerProject == "proj-1"

\* a caller that is not in a getTraceUrl call
NoUrlCall == [pc |-> "idle", traceId |-> "none", url |-> "none",
              fetched |-> FALSE]

\* `${this.baseUrl}/project/${projectId}/traces/${traceId}`
TraceUrl(pid, traceId) == baseUrl \o "/project/" \o pid \o "/traces/" \o traceId

\* before new ElasticDashClient(...)
InitClient ==
    /\ targetsUseThis \in BOOLEAN
    /\ lastCall = NoCall
    /\ constructed = FALSE
    /\ timeoutSeconds = 0
    /\ apiOptions = [timeoutGiven |-> FALSE, timeoutInSeconds |-> 0]
    /\ apiDefaultTimeout \in ApiDefaultTimeouts
    /\ projectId = "null"
    /\ urlCalls = [c \in UrlCallers |-> NoUrlCall]
    /\ urlStarted = 0
    /\ projectsGet = 0

\* the timeout in force on the API client: the option when one was passed,
\* else the API client's own default
ApiTimeoutInForce ==
    IF apiOptions.timeoutGiven THEN apiOptions.timeoutInSeconds
    ELSE apiDefaultTimeout

\* constructor(params?): timeoutSeconds is resolved, and this.api is built
\* from baseUrl, the keys, the SDK name and version, environment and
\* headers; the options name no timeout
Construct(p, env) ==
    /\ ~constructed
    /\ constructed' = TRUE
    /\ timeoutSeconds' = ResolveTimeout(p, env)
    /\ apiOptions' = [timeoutGiven |-> FALSE, timeoutInSeconds |-> 0]
    /\ UNCHANGED <<apiDefaultTimeout, targetsUseThis, lastCall, projectId,
                   urlCalls, urlStarted, projectsGet>>
    /\ UNCHANGED <<queueVars, cacheVars, tracerVars, attrVars, adapterVars>>

\* client.<alias>(...): the receiver of a bound function is the object it
\* was bound to, the receiver of any other function is the client
CallAlias(a) ==
    /\ constructed
    /\ LET recv == IF Aliases[a].bound THEN Aliases[a].owner ELSE "client" IN
       lastCall' = [kind |-> "alias", name |-> a, receiver |-> recv,
                    outcome |-> RunMethod(a, recv)]
    /\ UNCHANGED <<constructed, timeoutSeconds, apiOptions, apiDefaultTimeout,
                   targetsUseThis, projectId, urlCalls, urlStarted,
                   projectsGet>>
    /\ UNCHANGED <<queueVars, cacheVars, tracerVars, attrVars, adapterVars>>

\* client.<manager>.<method>(...): the target called on its owner
CallDirect(a) ==
    /\ constructed
    /\ lastCall' = [kind |-> "direct", name |-> a,
                    receiver |-> Aliases[a].owner,
                    outcome |-> RunMethod(a, Aliases[a].owner)]
    /\ UNCHANGED <<constructed, timeoutSeconds, apiOptions, apiDefaultTimeout,
                   targetsUseThis, projectId, urlCalls, urlStarted,
                   projectsGet>>
    /\ UNCHANGED <<queueVars, cacheVars, tracerVars, attrVars, adapterVars>>

\* getTraceUrl(traceId) up to its first await: with a project id stored the
\* URL is built at once, else api.projects.get is invoked and awaited
getTraceUrl(c, traceId) ==
    /\ constructed
    /\ urlCalls[c].pc # "fetching"
    /\ urlStarted < MaxUrlCalls
    /\ urlStarted' = urlStarted + 1
    /\ IF projectId # "null"
       THEN /\ urlCalls' = [urlCalls EXCEPT ![c] =
                               [pc |-> "done", traceId |-> traceId,
                                url |-> TraceUrl(projectId, traceId),
                                fetched |-> FALSE]]
            /\ projectsGet' = projectsGet
       ELSE /\ urlCalls' = [urlCalls EXCEPT ![c] =
                               [pc |-> "fetching", traceId |-> traceId,
                                url |-> "none", fetched |-> TRUE]]
            /\ projectsGet' = projectsGet + 1
    /\ UNCHANGED <<constructed, timeoutSeconds, apiOptions, apiDefaultTimeout,
                   targetsUseThis, lastCall, projectId>>
    /\ UNCHANGED <<queueVars, cacheVars, tracerVars, attrVars, adapterVars>>

\* a continuation that builds the URL without storing the project id
ProjectsGetResolves_noStore(c) ==
    /\ urlCalls[c].pc = "fetching"
    /\ projectId' = projectId
    /\ urlCalls' = [urlCalls EXCEPT ![c].pc = "done",
                                    ![c].url = TraceUrl(ServerProject,
                                                        urlCalls[c].traceId)]
    /\ UNCHANGED <<constructed, timeoutSeconds, apiOptions, apiDefaultTimeout,
                   targetsUseThis, lastCall, urlStarted, projectsGet>>
    /\ UNCHANGED <<queueVars, cacheVars, tracerVars, attrVars, adapterVars>>

\* api.projects.get() resolves: projectId = response.data[0].id is stored in
\* this.projectId and the URL is built from it
ProjectsGetResolves(c) ==
    /\ urlCalls[c].pc = "fetching"
    /\ projectId' = ServerProject
    /\ urlCalls' = [urlCalls EXCEPT ![c].pc = "done",
                                    ![c].url = TraceUrl(ServerProject,
                                                        urlCalls[c].traceId)]
    /\ UNCHANGED <<constructed, timeoutSeconds, apiOptions, apiDefaultTimeout,
                   targetsUseThis, lastCall, urlStarted, projectsGet>>
    /\ UNCHANGED <<queueVars, cacheVars, tracerVars, attrVars, adapterVars>>

\* api.projects.get() rejects, or answers with no project: the await throws,
\* getTraceUrl rejects and the assignment to this.projectId is not reached
ProjectsGetRejects(c) ==
    /\ urlCalls[c].pc = "fetching"
    /\ urlCalls' = [urlCalls EXCEPT ![c].pc = "failed"]
    /\ UNCHANGED <<constructed, timeoutSeconds, apiOptions, apiDefaultTimeout,
                   targetsUseThis, lastCall, projectId, urlStarted,
                   projectsGet>>
    /\ UNCHANGED <<queueVars, cacheVars, tracerVars, attrVars, adapterVars>>

\* this.prompt = new PromptManager({ apiClient: this.api }): prompt.get called
\* on the manager
PromptGet(r, k, opt, fb) ==
    /\ resolve("prompt", r, k, opt, fb)
    /\ UNCHANGED <<queueVars, sdkVars>>

\* an alias left unbound: this.getPrompt = this.prompt.get, called on the client
getPrompt_unbound(r, k, opt, fb) ==
    /\ resolve("client", r, k, opt, fb)
    /\ UNCHANGED <<queueVars, sdkVars>>

\* this.getPrompt = this.prompt.get.bind(this.prompt)
getPrompt(r, k, opt, fb) ==
    /\ resolve("prompt", r, k, opt, fb)
    /\ UNCHANGED <<queueVars, sdkVars>>

\* a flush() that resolves without calling this.score.flush()
flush_noScoreFlush ==
    /\ Len(calls) < MaxCalls
    /\ UNCHANGED <<cacheVars, sdkVars>>
    /\ clientCalls' = Append(clientCalls, "flush")
    /\ calls' = Append(calls, [NewCall("flush") EXCEPT !.done = TRUE])
    /\ ticks' = ticks
    /\ UNCHANGED <<cfg, qstate, buffer, inflight, attempts, pc, backoffMs,
                   report, shutdownRequested, shutdownOutcome, sends, outcomes,
                   delivered, failed, accepted, enqCalls, enqResult>>

\* public async flush() { return this.score.flush(); }
flush ==
    /\ Len(calls) < MaxCalls
    /\ UNCHANGED <<cacheVars, sdkVars>>
    /\ clientCalls' = Append(clientCalls, "flush")
    /\ QueueFlush
    /\ ticks' = ticks
    /\ UNCHANGED <<cfg, outcomes, delivered, failed, accepted, enqCalls,
                   enqResult>>

\* a shutdown() that resolves without calling this.score.shutdown()
shutdown_noScoreShutdown ==
    /\ Len(calls) < MaxCalls
    /\ UNCHANGED <<cacheVars, sdkVars>>
    /\ clientCalls' = Append(clientCalls, "shutdown")
    /\ calls' = Append(calls, [NewCall("shutdown") EXCEPT !.done = TRUE])
    /\ ticks' = ticks
    /\ UNCHANGED <<cfg, qstate, buffer, inflight, attempts, pc, backoffMs,
                   report, shutdownRequested, shutdownOutcome, sends, outcomes,
                   delivered, failed, accepted, enqCalls, enqResult>>

\* a shutdown() that only flushes: return this.score.flush()
shutdown_onlyFlush ==
    /\ Len(calls) < MaxCalls
    /\ UNCHANGED <<cacheVars, sdkVars>>
    /\ clientCalls' = Append(clientCalls, "shutdown")
    /\ LET call == NewCall("shutdown") IN
       IF qstate = "Flushing"
       THEN JoinFlush(Append(calls, call), shutdownRequested)
       ELSE RunLoop(buffer, <<>>, Append(calls, call), shutdownRequested)
    /\ ticks' = ticks
    /\ UNCHANGED <<cfg, outcomes, delivered, failed, accepted, enqCalls,
                   enqResult>>

\* a shutdown() that calls the score manager's flush(): return this.score.flush()
shutdown_callsScoreFlush ==
    /\ Len(calls) < MaxCalls
    /\ UNCHANGED <<cacheVars, sdkVars>>
    /\ clientCalls' = Append(clientCalls, "shutdown")
    /\ QueueFlush
    /\ ticks' = ticks
    /\ UNCHANGED <<cfg, outcomes, delivered, failed, accepted, enqCalls,
                   enqResult>>

\* public async shutdown() { return this.score.shutdown(); }
shutdown ==
    /\ Len(calls) < MaxCalls
    /\ UNCHANGED <<cacheVars, sdkVars>>
    /\ clientCalls' = Append(clientCalls, "shutdown")
    /\ QueueShutdown
    /\ ticks' = ticks
    /\ UNCHANGED <<cfg, outcomes, delivered, failed, accepted, enqCalls,
                   enqResult>>

\* the client constructed with its defaults, in a process whose globalThis
\* is an ordinary object
InitConstructed ==
    /\ InitQueue
    /\ InitCache
    /\ InitTracer /\ globalThisKind = "object"
    /\ constructed = TRUE
    /\ timeoutSeconds = 5
    /\ apiOptions = [timeoutGiven |-> FALSE, timeoutInSeconds |-> 0]
    /\ apiDefaultTimeout = 60
    /\ targetsUseThis = TRUE
    /\ lastCall = NoCall
    /\ urlCalls = [c \in UrlCallers |-> NoUrlCall]
    /\ urlStarted = 0
    /\ projectsGet = 0
    /\ InitAttrs
    /\ InitAdapter

\* private projectId: string | null = null
Init == InitConstructed /\ cfg \in Configs /\ projectId = "null"

Next ==
    \/ enqueue
    \/ flush
    \/ shutdown
    \/ TimerTick
    \/ \E r \in TransportResults : TransportRespond(r)
    \/ BackoffElapsed

Spec == Init /\ [][Next]_vars

\* the queue with a retry budget that two faults exhaust
InitSpecRetry == InitConstructed /\ cfg \in RetryConfigs /\ projectId = "null"

SpecRetry == InitSpecRetry /\ [][Next]_vars

\* the score queue behind a client whose getTraceUrl has stored the project
\* id, or has not been called yet
InitSpecFlush ==
    InitConstructed /\ cfg \in Configs /\ projectId \in {"null", ServerProject}

SpecFlush == InitSpecFlush /\ [][Next]_vars

\* the resource cache, with the queue left as constructed
NextCache ==
    \/ \E r \in Resolvers, k \in Keys, opt \in TtlOptions, fb \in BOOLEAN :
          PromptGet(r, k, opt, fb)
    \/ \E r \in Resolvers, k \in Keys, opt \in TtlOptions, fb \in BOOLEAN :
          getPrompt(r, k, opt, fb)
    \/ \E r \in Resolvers : Return(r) /\ UNCHANGED <<queueVars, sdkVars>>
    \/ \E k \in Keys, res \in FetchResults :
          FetcherRespond(k, res) /\ UNCHANGED <<queueVars, sdkVars>>
    \/ \E k \in Keys : invalidate(k) /\ UNCHANGED <<queueVars, sdkVars>>
    \/ Tick /\ UNCHANGED <<queueVars, sdkVars>>

InitSpecCache == Init /\ cfg = [maxBatchSize |-> 1, maxRetries |-> 0]

SpecCache == InitSpecCache /\ [][NextCache]_vars

\* the tracing module, with the queue and the cache left as constructed
NextTracer ==
    \/ \E p \in Providers \cup {"null"} : setElasticDashTracerProvider(p)
    \/ getElasticDashTracerProvider
    \/ RegisterGlobalProvider
    \/ PreventExtensions

InitSpecTracer ==
    /\ InitQueue /\ cfg.maxRetries = 0
    /\ InitCache
    /\ InitTracer
    /\ InitClient /\ apiDefaultTimeout = 60 /\ targetsUseThis = TRUE
    /\ InitAttrs
    /\ InitAdapter

SpecTracer == InitSpecTracer /\ [][NextTracer]_vars

\* the client: its construction and the calls on the constructed client
NextClient ==
    \/ \E p \in ParamTimeouts, env \in EnvTimeouts : Construct(p, env)
    \/ \E a \in AliasNames : CallAlias(a)
    \/ \E a \in AliasNames : CallDirect(a)

InitSpecClient ==
    /\ InitQueue /\ cfg.maxRetries = 0
    /\ InitCache
    /\ InitTracer /\ globalThisKind = "object"
    /\ InitClient
    /\ InitAttrs
    /\ InitAdapter

SpecClient == InitSpecClient /\ [][NextClient]_vars

\* getTraceUrl on the constructed client, called by concurrent callers
NextTraceUrl ==
    \/ \E c \in UrlCallers, t \in TraceIds : getTraceUrl(c, t)
    \/ \E c \in UrlCallers : ProjectsGetResolves(c)
    \/ \E c \in UrlCallers : ProjectsGetRejects(c)

InitSpecTraceUrl == Init /\ cfg.maxRetries = 0

SpecTraceUrl == InitSpecTraceUrl /\ [][NextTraceUrl]_vars

\* the attribute functions applied to every argument
NextAttrs ==
    \/ CallCreateTraceAttributes
    \/ CallCreateObservationAttributes

InitSpecAttrs ==
    /\ InitQueue /\ cfg.maxRetries = 0
    /\ InitCache
    /\ InitTracer /\ globalThisKind = "object"
    /\ InitClient /\ apiDefaultTimeout = 60 /\ targetsUseThis = TRUE
    /\ attrIn \in AttrCalls
    /\ attrOut = FromEntries({})
    /\ InitAdapter

SpecAttrs == InitSpecAttrs /\ [][NextAttrs]_vars

\* the adapter: one invocation of the evaluator it returns, for every extra
\* params and every argument
NextAdapter ==
    \/ InvokeEvaluator
    \/ \E score \in Scores : EvaluatorResolves(score)

InitSpecAdapter ==
    /\ InitQueue /\ cfg.maxRetries = 0
    /\ InitCache
    /\ InitTracer /\ globalThisKind = "object"
    /\ InitClient /\ apiDefaultTimeout = 60 /\ targetsUseThis = TRUE
    /\ InitAttrs
    /\ evalIn \in [params : ExtraParams, ed : EvaluatorParams]
    /\ evalCalls = <<>>
    /\ evalOut = NoEvaluation

SpecAdapter == InitSpecAdapter /\ [][NextAdapter]_vars

\* The timer is periodic, every Transport call is bound by the per-call
\* timeout and a backoff delay is finite: none of them is postponed forever.
FairSpec ==
    /\ Spec
    /\ WF_vars(TimerTick)
    /\ WF_vars(\E r \in TransportResults : TransportRespond(r))
    /\ WF_vars(BackoffElapsed)

\* ------------------------------------------------------------------------
\* Properties of the dispatch queue
\* ------------------------------------------------------------------------
\* every answer of the Transport so far was an Ack, and none is outstanding
AllAck ==
    /\ \A i \in DOMAIN outcomes : outcomes[i] = "Ack"
    /\ Len(outcomes) = Len(sends)

\* the run so far is k enqueue calls followed by one flush(), with no flush
\* triggered by the timer
EnqueuesThenFlush(k) ==
    /\ enqCalls = k
    /\ Len(calls) = 1
    /\ calls[1].op = "flush"
    /\ calls[1].mark = k
    /\ ticks = 0

\* C1: with a Transport that always succeeds, when a run of k <= maxBatchSize
\* enqueue calls followed by flush() has its flush() resolved, the Transport
\* was handed exactly one batch, holding exactly the k events in enqueue
\* order, and nothing is left pending.
C1_SingleBatchFlush ==
    \A k \in 1..MaxEvents :
        (/\ k <= cfg.maxBatchSize
         /\ EnqueuesThenFlush(k)
         /\ calls[1].done
         /\ AllAck)
        => /\ accepted = [i \in 1..k |-> i]
           /\ sends = <<accepted>>
           /\ delivered = <<accepted>>
           /\ buffer = <<>>
           /\ inflight = <<>>
           /\ calls[1].report = <<>>

C1_Witness ==
    /\ cfg.maxBatchSize = 2
    /\ EnqueuesThenFlush(2)
    /\ calls[1].done
    /\ AllAck
    /\ sends = << <<1, 2>> >>

\* every event handed to delivery so far, batch by batch
Attempted == Flatten(delivered) \o Flatten(failed)

\* a call has what it waited for: every event accepted before it was issued
\* has been delivered or reported as failed
Served(c) == \A e \in 1..c.mark : e \in Range(Attempted)

\* a batch is handed to the Transport again only as the retry of a send that
\* was answered Transient
OnlyRetriesRepeat ==
    \A i, j \in DOMAIN sends :
        (i < j /\ Range(sends[i]) \cap Range(sends[j]) # {})
        => /\ sends[i] = sends[j]
           /\ \A n \in i..(j - 1) : n \in DOMAIN outcomes /\ outcomes[n] = "Transient"

\* C2: a flush() issued while a flush is in progress awaits it instead of
\* draining the same events again: no event is in two delivered batches or
\* in a second drain, a resolved flush() has had every event accepted before
\* it attempted, and an enqueue made during the flush is accepted, leaves the
\* batch in flight alone and waits in the buffer for the next batch.
C2_NoDoubleDelivery ==
    /\ [](/\ NoDup(Flatten(delivered))
          /\ NoDup(Attempted \o inflight \o buffer)
          /\ OnlyRetriesRepeat
          /\ \A i \in DOMAIN calls : calls[i].done => Served(calls[i]))
    /\ [][(enqCalls' # enqCalls /\ qstate = "Flushing")
          => /\ enqResult' = "ok"
             /\ buffer' = Append(buffer, enqCalls')
             /\ inflight' = inflight
             /\ sends' = sends]_vars

C2_Witness ==
    \E i \in DOMAIN calls :
        /\ calls[i].op = "flush"
        /\ calls[i].joined
        /\ calls[i].done
        /\ Len(accepted) > calls[i].mark
        /\ Len(delivered) >= 2

\* C3: shutdown() is idempotent: of two shutdown() calls the later never
\* resolves before the earlier, both resolve with the same report, and once
\* a shutdown() has resolved the queue is drained with every accepted event
\* handed to delivery exactly once.
C3_ShutdownIdempotent ==
    /\ \A i, j \in DOMAIN calls :
          (i < j /\ calls[i].op = "shutdown" /\ calls[j].op = "shutdown")
          => /\ calls[j].done => calls[i].done
             /\ calls[j].done => calls[j].report = calls[i].report
    /\ (\E i \in DOMAIN calls : calls[i].op = "shutdown" /\ calls[i].done)
       => /\ buffer = <<>>
          /\ inflight = <<>>
          /\ NoDup(Attempted)
          /\ Range(Attempted) = Range(accepted)
          /\ OnlyRetriesRepeat

C3_Witness ==
    /\ Len(calls) = 2
    /\ calls[1].op = "shutdown" /\ calls[2].op = "shutdown"
    /\ calls[2].joined
    /\ calls[1].done /\ calls[2].done
    /\ calls[1].report # <<>>
    /\ Len(accepted) >= 2

\* C3, the sequential case reached: the second shutdown() was issued after
\* the first had completed with a failure report
C3_WitnessSequential ==
    /\ Len(calls) = 2
    /\ calls[1].op = "shutdown" /\ calls[2].op = "shutdown"
    /\ ~calls[2].joined
    /\ calls[2].done
    /\ calls[2].report # <<>>

\* C4 (state part): an accepted event is always in exactly one of pending,
\* in flight, delivered, reported failed; a resolved shutdown() has left
\* nothing pending or in flight.
NoSilentDrop ==
    /\ NoDup(Attempted \o inflight \o buffer)
    /\ Range(Attempted \o inflight \o buffer) = Range(accepted)
    /\ \A i \in DOMAIN calls :
          (calls[i].op = "shutdown" /\ calls[i].done)
          => /\ buffer = <<>> /\ inflight = <<>>
             /\ \A b \in Range(calls[i].report) : b \in Range(failed)
    /\ \A i \in DOMAIN calls : calls[i].done => Served(calls[i])

C8_ThresholdFlushOrder ==
    /\ [](/\ \A i \in DOMAIN sends :
               Len(sends[i]) >= 1 /\ Len(sends[i]) <= cfg.maxBatchSize
          /\ qstate # "Flushing" => Len(buffer) < cfg.maxBatchSize
          /\ \A i, j \in DOMAIN sends :
               i < j => \/ sends[i] = sends[j]
                        \/ \A a \in Range(sends[i]), b \in Range(sends[j]) : a < b
          /\ (/\ cfg.maxBatchSize = 2
              /\ EnqueuesThenFlush(3)
              /\ calls[1].done
              /\ AllAck)
             => sends = << <<1, 2>>, <<3>> >>)
    /\ [][(/\ enqCalls' # enqCalls
           /\ qstate \in {"Idle", "Accumulating"}
           /\ Len(buffer) + 1 = cfg.maxBatchSize)
          => /\ sends' = Append(sends, Append(buffer, enqCalls'))
             /\ inflight' = Append(buffer, enqCalls')
             /\ buffer' = <<>>]_vars

C8_Witness ==
    /\ cfg.maxBatchSize = 2
    /\ EnqueuesThenFlush(3)
    /\ calls[1].done
    /\ AllAck
    /\ sends = << <<1, 2>>, <<3>> >>
    /\ delivered = sends

\* C9: enqueue signals QueueClosed exactly when the queue is ShuttingDown and
\* then leaves the buffer alone; in every other state it accepts the event,
\* which is then pending or in the batch just assembled; an enqueue step
\* never reports a delivery failure; once a shutdown() has resolved the queue
\* is ShuttingDown.
C9_EnqueueOnlyFailsClosed ==
    /\ [](/\ enqResult \in {"none", "ok", "QueueClosed"}
          /\ (\E i \in DOMAIN calls : calls[i].op = "shutdown" /\ calls[i].done)
             => qstate = "ShuttingDown")
    /\ [][enqCalls' # enqCalls
          => /\ failed' = failed
             /\ \A i \in DOMAIN calls : calls'[i] = calls[i]
             /\ IF qstate = "ShuttingDown"
                THEN /\ enqResult' = "QueueClosed"
                     /\ buffer' = buffer
                     /\ accepted' = accepted
                     /\ qstate' = qstate
                ELSE /\ enqResult' = "ok"
                     /\ accepted' = Append(accepted, enqCalls')
                     /\ IF sends' = sends
                        THEN buffer' = Append(buffer, enqCalls')
                        ELSE inflight' \o buffer' = Append(buffer, enqCalls')]_vars

C9_Witness ==
    /\ enqResult = "QueueClosed"
    /\ qstate = "ShuttingDown"
    /\ Len(accepted) >= 1
    /\ enqCalls > Len(accepted)

\* results of the sends of batch b
ResultsOf(b, r) ==
    Cardinality({i \in DOMAIN outcomes : sends[i] = b /\ outcomes[i] = r})

\* C10: a batch is handed to the Transport at most maxRetries + 1 times; it
\* is reported failed only after a Permanent answer or maxRetries + 1
\* Transient answers; until then it stays in flight for its retry; a batch
\* acknowledged after t Transient answers was sent t + 1 times, is delivered
\* once and is in no failure report (Transient twice then Ack with
\* maxRetries = 3: delivered on the third attempt).
C10_RetryBound ==
    /\ attempts <= cfg.maxRetries + 1
    /\ \A b \in Range(sends) :
          /\ Count(sends, b) <= cfg.maxRetries + 1
          /\ b \in Range(failed)
             => \/ ResultsOf(b, "Permanent") = 1
                \/ ResultsOf(b, "Transient") = cfg.maxRetries + 1
          /\ (/\ ResultsOf(b, "Transient") <= cfg.maxRetries
              /\ ResultsOf(b, "Permanent") = 0
              /\ ResultsOf(b, "Ack") = 0)
             => /\ inflight = b
                /\ b \notin Range(failed)
          /\ ResultsOf(b, "Ack") = 1
             => /\ Count(sends, b) = ResultsOf(b, "Transient") + 1
                /\ Count(delivered, b) = 1
                /\ b \notin Range(failed)
                /\ \A i \in DOMAIN calls : b \notin Range(calls[i].report)
                /\ NoDup(Flatten(delivered))
    /\ (cfg.maxRetries = 3 /\ outcomes = <<"Transient", "Transient", "Ack">>)
       => /\ SubSeq(sends, 1, 3) = <<sends[1], sends[1], sends[1]>>
          /\ Count(sends, sends[1]) = 3
          /\ delivered = <<sends[1]>>
          /\ failed = <<>>

C10_Witness ==
    /\ cfg.maxRetries = 3
    /\ outcomes = <<"Transient", "Transient", "Ack">>
    /\ Count(sends, sends[1]) = 3
    /\ delivered = <<sends[1]>>
    /\ \E i \in DOMAIN calls : calls[i].done /\ calls[i].report = <<>>

\* the Transport answers r in this step
AnswerIs(r) == outcomes' = Append(outcomes, r)

\* batch b, failed in this step, goes into the aggregated report: the flush
\* goes on with the next batch from the head of the buffer and resolves no
\* caller yet, or, with nothing left to send, resolves every caller awaiting
\* it with a report that holds b
ReportedNow(b) ==
    /\ failed' = Append(failed, b)
    /\ delivered' = delivered
    /\ IF buffer # <<>>
       THEN /\ sends' = Append(sends, SubSeq(buffer, 1,
                                             Min(Len(buffer), cfg.maxBatchSize)))
            /\ report' = Append(report, b)
            /\ calls' = calls
       ELSE /\ sends' = sends
            /\ \A i \in DOMAIN calls :
                  ~calls[i].done
                  => /\ calls'[i].done
                     /\ calls'[i].report = Append(report, b)

\* a caller that awaited the flush resolves with everything the flush has in
\* its report
ReportHandedOver ==
    \A i \in DOMAIN calls :
        (~calls[i].done /\ calls'[i].done)
        => \A b \in Range(report) : b \in Range(calls'[i].report)

\* batch b has no event pending, in flight, delivered or in another send
Gone(b) ==
    /\ Range(b) \cap Range(buffer \o inflight) = {}
    /\ Range(b) \cap Range(Flatten(delivered)) = {}
    /\ \A i \in DOMAIN sends : sends[i] # b => Range(sends[i]) \cap Range(b) = {}

\* C11: a batch answered Transient on each of its maxRetries + 1 attempts is
\* failed once, is gone from the queue and is never sent again; the step
\* that exhausts it puts it in the aggregated report while the flush goes on
\* with the remaining batches, and the callers awaiting the flush resolve
\* with that report.
C11_ExhaustionTerminal ==
    /\ [](\A b \in Range(sends) :
             ResultsOf(b, "Transient") = cfg.maxRetries + 1
             => /\ Count(sends, b) = cfg.maxRetries + 1
                /\ Count(failed, b) = 1
                /\ Gone(b))
    /\ [][(AnswerIs("Transient") /\ attempts = cfg.maxRetries + 1)
          => ReportedNow(inflight)]_vars
    /\ [][ReportHandedOver]_vars

C11_Witness ==
    /\ cfg.maxRetries = 1
    /\ outcomes = <<"Transient", "Transient", "Ack">>
    /\ sends = << <<1>>, <<1>>, <<2>> >>
    /\ failed = << <<1>> >>
    /\ delivered = << <<2>> >>
    /\ \E i \in DOMAIN calls : calls[i].done /\ calls[i].report = << <<1>> >>

ClientCallStep == clientCalls' # clientCalls

\* C19: client.flush() and client.shutdown() each make exactly one call of the
\* score manager's method of the same name, and the promise they return is
\* that call's promise (every client call is one score-manager call, in the
\* same order and under the same name). The call touches the score queue
\* only: the prompt manager's cache and in-flight fetches, the stored
\* projectId, the tracer provider slot and the rest of the client stay as
\* they were.
C19_FlushShutdownDelegate ==
    /\ [](/\ Len(calls) = Len(clientCalls)
          /\ \A i \in DOMAIN calls : calls[i].op = clientCalls[i])
    /\ [][ClientCallStep =>
            /\ \E op \in {"flush", "shutdown"} :
                  clientCalls' = Append(clientCalls, op)
            /\ Len(calls') = Len(calls) + 1
            /\ calls'[Len(calls')].op = clientCalls'[Len(clientCalls')]
            /\ \A i \in DOMAIN calls : calls'[i].op = calls[i].op
            /\ UNCHANGED <<cache, handle, fetcherActive, resolves, now>>
            /\ projectId' = projectId
            /\ globalState' = globalState
            /\ UNCHANGED <<tracerVars, clientVars, attrVars, adapterVars>>
            /\ UNCHANGED <<accepted, enqCalls, enqResult>>]_vars

\* with the project id stored, a flush() and a shutdown() have both been
\* answered by the score manager, which delivered what was queued
C19_Witness ==
    /\ clientCalls = <<"flush", "shutdown">>
    /\ \A i \in DOMAIN calls : calls[i].done
    /\ calls[1].op = "flush"
    /\ calls[2].op = "shutdown"
    /\ delivered # <<>>
    /\ qstate = "ShuttingDown"
    /\ projectId = ServerProject

\* ------------------------------------------------------------------------
\* Properties of the resource cache
\* ------------------------------------------------------------------------
\* caller r issues a resolve call in this step
CallStep(r) == resolves[r].status = "idle" /\ resolves'[r].status # "idle"

\* the Fetcher answers the fetch for key k in this step
AnswerStep(k) == fetcherActive'[k] < fetcherActive[k]

\* time t lies in the TTL window of entry e
InWindow(e, t) == e.present /\ e.fetchTs <= t /\ t < e.fetchTs + e.ttl

\* C5: per key at most one Fetcher invocation is outstanding and it is
\* outstanding exactly while the shared handle is installed; a resolve of a
\* missing or stale key leaves exactly one fetch in flight, joining the one
\* there is instead of starting another, and blocks on it when the key is
\* missing; the answer (success or failure) clears the handle and settles
\* every blocked caller; a fetch starts only when none is in flight.
C5_FetchCoalescing ==
    /\ [](\A k \in Keys :
             /\ fetcherActive[k] <= 1
             /\ handle[k].active <=> fetcherActive[k] = 1)
    /\ [](\A r \in Resolvers :
             resolves[r].status = "pending"
             => /\ fetcherActive[resolves[r].key] = 1
                /\ ~cache[resolves[r].key].present)
    /\ [][\A r \in Resolvers :
             (CallStep(r) /\ ~InWindow(cache[resolves'[r].key], now))
             => LET k == resolves'[r].key IN
                /\ fetcherActive'[k] = 1
                /\ handle'[k].active
                /\ handle[k].active => handle' = handle
                /\ ~cache[k].present => resolves'[r].status = "pending"]_vars
    /\ [][\A k \in Keys :
             /\ AnswerStep(k)
                => /\ ~handle'[k].active
                   /\ fetcherActive'[k] = 0
                   /\ \A r \in Resolvers :
                         (resolves[r].status = "pending" /\ resolves[r].key = k)
                         => resolves'[r].status \in
                               {"fetched", "fallback", "ResourceNotFound",
                                "FetchUnavailable"}
             /\ fetcherActive'[k] > fetcherActive[k]
                => /\ fetcherActive[k] = 0
                   /\ \E r \in Resolvers : CallStep(r) /\ resolves'[r].key = k]_vars

C5_Witness ==
    \E k \in Keys :
        /\ \A r \in Resolvers :
              resolves[r].status = "pending" /\ resolves[r].key = k
        /\ fetcherActive[k] = 1
        /\ handle[k].active

\* C6: a resolve issued inside the TTL window of an entry that a fetch
\* populated returns the value of that entry and leaves the Fetcher, the
\* handle and the cache alone; the entry a successful fetch writes carries
\* the fetch time, the TTL of the resolve that started the fetch and the
\* value handed to the callers blocked on it.
C6_FreshHitNoFetch ==
    /\ [][\A r \in Resolvers :
             LET e == cache[resolves'[r].key] IN
             (CallStep(r) /\ InWindow(e, now) /\ ~e.stale)
             => /\ resolves'[r].status = "hit"
                /\ resolves'[r].value = e.value
                /\ fetcherActive' = fetcherActive
                /\ handle' = handle
                /\ cache' = cache]_vars
    /\ [][\A k \in Keys :
             (AnswerStep(k) /\ cache'[k].present /\ ~cache'[k].stale)
             => /\ cache'[k].fetchTs = now
                /\ cache'[k].ttl = handle[k].ttl
                /\ cache'[k].value \in Values
                /\ \A r \in Resolvers :
                      (resolves[r].status = "pending" /\ resolves[r].key = k)
                      => resolves'[r].value = cache'[k].value]_vars

C6_Witness ==
    \E r1, r2 \in Resolvers : \E k \in Keys :
        /\ resolves[r1].status = "fetched" /\ resolves[r1].key = k
        /\ resolves[r2].status = "hit" /\ resolves[r2].key = k
        /\ resolves[r1].value = resolves[r2].value
        /\ InWindow(cache[k], now) /\ ~cache[k].stale
        /\ now = cache[k].fetchTs + cache[k].ttl - 1
        /\ cache[k].ttl = defaultTtlMs
        /\ fetcherActive[k] = 0

\* C7: a resolve of a key whose entry is past its window returns the stale
\* value at once, never an error, with a refresh in flight behind it; the
\* answer to a refresh keeps an entry in the cache, and when the refresh
\* failed it is the same entry with its window ending one grace period after
\* the failure, and no caller that has its value is touched; a resolve
\* inside that grace window returns the value without a fetch.
C7_StaleOnRefreshFailure ==
    /\ [][\A r \in Resolvers :
             LET e == cache[resolves'[r].key] IN
             (CallStep(r) /\ e.present /\ ~InWindow(e, now))
             => /\ resolves'[r].status = "stale"
                /\ resolves'[r].value = e.value
                /\ fetcherActive'[resolves'[r].key] = 1
                /\ cache' = cache]_vars
    /\ [][\A k \in Keys :
             (AnswerStep(k) /\ cache[k].present)
             => /\ cache'[k].present
                /\ cache'[k].stale
                   => /\ cache'[k].value = cache[k].value
                      /\ cache'[k].fetchTs = cache[k].fetchTs
                      /\ cache'[k].fetchTs + cache'[k].ttl = now + staleGraceMs
                /\ ~cache'[k].stale => cache'[k].fetchTs = now
                /\ \A r \in Resolvers :
                      resolves[r].status # "pending" => resolves'[r] = resolves[r]]_vars
    /\ [][\A r \in Resolvers :
             LET e == cache[resolves'[r].key] IN
             (CallStep(r) /\ InWindow(e, now) /\ e.stale)
             => /\ resolves'[r].status = "grace"
                /\ resolves'[r].value = e.value
                /\ fetcherActive' = fetcherActive
                /\ cache' = cache]_vars

C7_Witness ==
    \E r1, r2 \in Resolvers : \E k \in Keys :
        /\ resolves[r1].status = "stale" /\ resolves[r1].key = k
        /\ resolves[r2].status = "grace" /\ resolves[r2].key = k
        /\ resolves[r1].value = cache[k].value
        /\ resolves[r2].value = cache[k].value
        /\ cache[k].stale
        /\ InWindow(cache[k], now)
        /\ fetcherActive[k] = 0

\* ------------------------------------------------------------------------
\* Properties of the tracer provider slot
\* ------------------------------------------------------------------------
\* what the latest set call asks get to return
MostRecentlySet == IF lastSet \in Providers THEN lastSet ELSE otelGlobal

\* the state object under the global symbol is installed at most once and
\* is never taken away; without one the isolated provider is null
SlotInstalledOnce ==
    /\ [](/\ installs <= 1
          /\ globalState.installed <=> installs = 1
          /\ ~globalState.installed => globalState = createState)
    /\ [][/\ globalState.installed => globalState'.installed
          /\ installs' >= installs
          /\ globalState' # globalState
             => \/ lastOp' = "set"
                \/ lastOp' = "get" /\ globalState' = [globalState EXCEPT !.installed = TRUE]]_vars

C13_WitnessFallback ==
    /\ lastOp = "get"
    /\ lastSet = "P1"
    /\ got = "noop"
    /\ globalThisKind = "locked"
    /\ installs = 0

\* ------------------------------------------------------------------------
\* Properties of the client
\* ------------------------------------------------------------------------
\* C14 as stated: on a constructed client the timeout in force on the API
\* client is the resolved timeoutSeconds.
C14_TimeoutApplied ==
    constructed => ApiTimeoutInForce = timeoutSeconds

\* C14, the case reached: constructed with timeout 10, the API client
\* applies its own default
C14_Witness ==
    /\ constructed
    /\ timeoutSeconds = 10
    /\ ~apiOptions.timeoutGiven
    /\ ApiTimeoutInForce = apiDefaultTimeout

\* C15 as stated: a call of any alias runs the target with the owning
\* manager as receiver and gives what the direct call gives.
C15_AliasesBound ==
    lastCall.kind = "alias"
    => /\ lastCall.receiver = Aliases[lastCall.name].owner
       /\ lastCall.outcome = "result"

\* C15, what holds: the three aliases bound with .bind (getPrompt,
\* createPrompt, updatePrompt) run the target on the PromptManager; every
\* other alias runs it with the client as receiver.
C15_BoundAliasesForward ==
    lastCall.kind = "alias"
    => IF lastCall.name \in {"getPrompt", "createPrompt", "updatePrompt"}
       THEN /\ lastCall.receiver = "prompt"
            /\ lastCall.outcome = "result"
       ELSE /\ lastCall.receiver = "client"
            /\ lastCall.outcome = "result" <=> ~targetsUseThis

C15_Witness ==
    /\ lastCall.kind = "alias"
    /\ lastCall.name = "getDataset"
    /\ lastCall.receiver = "client"
    /\ lastCall.outcome = "TypeError"

\* caller c enters getTraceUrl in this step
UrlCallStarts(c) ==
    /\ urlStarted' = urlStarted + 1
    /\ urlCalls'[c] # urlCalls[c]

\* the api.projects.get awaited by caller c is answered in this step
UrlFetchEnds(c, end) ==
    /\ urlCalls[c].pc = "fetching"
    /\ urlCalls'[c].pc = end

\* C20: getTraceUrl caches the project id. With an id stored, a call does not
\* invoke api.projects.get and builds its URL from the stored id, which never
\* changes afterwards. With none stored, every call invokes api.projects.get
\* once, also while another call's fetch is still awaited (no coalescing);
\* a failed fetch leaves projectId null, a successful one stores the id.
C20_ProjectIdCached ==
    /\ [][\A c \in UrlCallers :
            /\ UrlCallStarts(c) =>
                  IF projectId # "null"
                  THEN /\ projectsGet' = projectsGet
                       /\ projectId' = projectId
                       /\ urlCalls'[c].pc = "done"
                       /\ urlCalls'[c].url =
                             TraceUrl(projectId, urlCalls'[c].traceId)
                  ELSE /\ projectsGet' = projectsGet + 1
                       /\ projectId' = "null"
                       /\ urlCalls'[c].pc = "fetching"
            /\ UrlFetchEnds(c, "failed") => projectId' = projectId
            /\ UrlFetchEnds(c, "done") =>
                  /\ projectId' = ServerProject
                  /\ urlCalls'[c].url =
                        TraceUrl(ServerProject, urlCalls[c].traceId)]_vars
    /\ [][projectId # "null" => projectId' = projectId]_vars
    /\ [][projectId' # projectId =>
            \E c \in UrlCallers : UrlFetchEnds(c, "done")]_vars
    /\ [](projectsGet <= urlStarted)

\* a first call failed, a fetch then succeeded, and the latest call was
\* answered from the stored id: two fetches for three calls
C20_Witness ==
    /\ urlCalls[1].pc = "failed"
    /\ urlCalls[2].pc = "done"
    /\ ~urlCalls[2].fetched
    /\ urlCalls[2].url = TraceUrl(ServerProject, "t2")
    /\ projectId = ServerProject
    /\ projectsGet = 2
    /\ urlStarted = 3

\* two overlapping calls, each awaiting its own api.projects.get
C20_WitnessOverlap ==
    /\ \A c \in UrlCallers : urlCalls[c].pc = "fetching"
    /\ projectsGet = 2
    /\ projectId = "null"

\* ------------------------------------------------------------------------
\* Properties of the span attributes
\* ------------------------------------------------------------------------
\* the argument each attribute key is taken from as it is
TracePlainFields ==
    [TRACE_NAME |-> "name", TRACE_USER_ID |-> "userId",
     TRACE_SESSION_ID |-> "sessionId", VERSION |-> "version",
     RELEASE |-> "release", TRACE_TAGS |-> "tags",
     ENVIRONMENT |-> "environment", TRACE_PUBLIC |-> "public"]

ObservationPlainFields ==
    [OBSERVATION_LEVEL |-> "level",
     OBSERVATION_STATUS_MESSAGE |-> "statusMessage", VERSION |-> "version",
     OBSERVATION_MODEL |-> "model"]

\* the argument each attribute key is serialized from
TraceSerializedFields == [TRACE_INPUT |-> "input", TRACE_OUTPUT |-> "output"]

ObservationSerializedFields ==
    [OBSERVATION_INPUT |-> "input", OBSERVATION_OUTPUT |-> "output",
     OBSERVATION_USAGE_DETAILS |-> "usageDetails",
     OBSERVATION_COST_DETAILS |-> "costDetails",
     OBSERVATION_COMPLETION_START_TIME |-> "completionStartTime",
     OBSERVATION_MODEL_PARAMETERS |-> "modelParameters"]

\* a value that serializes to a text: not null, not undefined, and not a
\* function, for which JSON.stringify gives undefined
HasText(v) == v.t \notin {"undefined", "null", "function"}

\* the returned object has key exactly when the plain argument is not null
\* or undefined, and then with the argument as its value
PlainKept(fields) ==
    \A key \in DOMAIN fields :
        LET v == attrIn.a[fields[key]] IN
        /\ key \in DOMAIN attrOut <=> ~IsNullish(v)
        /\ key \in DOMAIN attrOut => attrOut[key] = v

\* the returned object has key exactly when the argument serializes to a
\* text, and then with a string as its value
SerializedKept(fields) ==
    \A key \in DOMAIN fields :
        /\ key \in DOMAIN attrOut <=> HasText(attrIn.a[fields[key]])
        /\ key \in DOMAIN attrOut => attrOut[key].t = "string"

MetadataKeysOut ==
    DOMAIN attrOut \
        (DOMAIN TracePlainFields \cup DOMAIN TraceSerializedFields
         \cup DOMAIN ObservationPlainFields
         \cup DOMAIN ObservationSerializedFields
         \cup {"OBSERVATION_TYPE", "OBSERVATION_PROMPT_NAME",
                "OBSERVATION_PROMPT_VERSION"})

\* the prefix of the metadata keys of the call
PrefixOfCall ==
    IF attrIn.fn = "createObservationAttributes" THEN "OBSERVATION_METADATA"
    ELSE "TRACE_METADATA"

\* the call returned and its metadata argument is a plain object
ObjectMetadata == attrIn.returned /\ attrIn.a.metadata.v.t = "object"

C18_AutoevalsAdapter ==
    /\ Len(evalCalls) <= 1
    /\ evalOut.state # "none"
       => /\ Len(evalCalls) = 1
          /\ DOMAIN evalCalls[1] =
                DOMAIN evalIn.params \cup {"input", "output", "expected"}
          /\ evalCalls[1]["input"] = evalIn.ed.input
          /\ evalCalls[1]["output"] = evalIn.ed.output
          /\ evalCalls[1]["expected"] = evalIn.ed.expectedOutput
          /\ \A key \in DOMAIN evalIn.params \ {"input", "output", "expected"} :
                evalCalls[1][key] = evalIn.params[key]
    /\ evalOut.state = "returned"
       => /\ evalOut.result.name = evalOut.score.name
          /\ evalOut.result.metadata = evalOut.score.metadata
          /\ evalOut.result.value =
                IF evalOut.score.score \in {Null, Undef} THEN Num("0")
                ELSE evalOut.score.score

C18_Witness ==
    /\ evalOut.state = "returned"
    /\ evalIn.params = FromEntries({<<"model", Str("gpt-4o")>>,
                                    <<"input", Str("params-input")>>,
                                    <<"expected", Str("params-expected")>>})
    /\ evalIn.ed.expectedOutput = Undef
    /\ evalCalls = <<FromEntries({<<"model", Str("gpt-4o")>>,
                                  <<"input", evalIn.ed.input>>,
                                  <<"output", evalIn.ed.output>>,
                                  <<"expected", Undef>>})>>
    /\ evalOut.score.score = Null
    /\ evalOut.result.value = Num("0")

\* ------------------------------------------------------------------------
\* Properties of the prompt link
\* ------------------------------------------------------------------------
\* createObservationAttributes has returned
ObservationReturned ==
    attrIn.returned /\ attrIn.fn = "createObservationAttributes"

\* a prompt was supplied and its isFallback flag is falsy
PromptAuthoritative ==
    /\ attrIn.a.prompt.given
    /\ attrIn.a.prompt.isFallback \in {Bool("false"), Undef}

\* C21: a fallback prompt is never linked to an observation. The object
\* returned by createObservationAttributes has the prompt-name and the
\* prompt-version attribute, with the prompt's name and version as values,
\* exactly when a prompt was supplied and its isFallback flag is falsy; the
\* two attributes are present together or absent together.
C21_FallbackPromptNotLinked ==
    ObservationReturned =>
        /\ "OBSERVATION_PROMPT_NAME" \in DOMAIN attrOut <=> PromptAuthoritative
        /\ "OBSERVATION_PROMPT_VERSION" \in DOMAIN attrOut <=> PromptAuthoritative
        /\ "OBSERVATION_PROMPT_NAME" \in DOMAIN attrOut
              <=> "OBSERVATION_PROMPT_VERSION" \in DOMAIN attrOut
        /\ PromptAuthoritative =>
              /\ attrOut["OBSERVATION_PROMPT_NAME"] = attrIn.a.prompt.name
              /\ attrOut["OBSERVATION_PROMPT_VERSION"] = attrIn.a.prompt.version

\* a fallback prompt was supplied and neither attribute was emitted
C21_Witness ==
    /\ ObservationReturned
    /\ attrIn.a.prompt.given
    /\ attrIn.a.prompt.isFallback = Bool("true")
    /\ attrIn.a.prompt.name = Str("p")
    /\ "OBSERVATION_PROMPT_NAME" \notin DOMAIN attrOut
    /\ "OBSERVATION_PROMPT_VERSION" \notin DOMAIN attrOut
    /\ attrOut["OBSERVATION_TYPE"] = Str("generation")

\* a prompt without the flag, with version 0 and an empty name, is linked
C21_WitnessLinked ==
    /\ ObservationReturned
    /\ attrIn.a.prompt.given
    /\ attrIn.a.prompt.isFallback = Undef
    /\ attrOut["OBSERVATION_PROMPT_NAME"] = Str("")
    /\ attrOut["OBSERVATION_PROMPT_VERSION"] = Num("0")

====
